---- MODULE Spec2Model ----
(***************************************************************************)
(* The streaming conversation controller of frontend/src/App.tsx: the      *)
(* React component App, its image handlers and its handleSubmit, which     *)
(* posts the conversation, reads the server-sent event stream chunk by     *)
(* chunk and reconciles the outcome into chatHistory / isLoading / error.  *)
(*                                                                         *)
(* Texts that the code inspects character by character (prompts, turn      *)
(* contents, the wire) are sequences of one-character strings.  Fixed      *)
(* messages that are only stored and compared are one-segment sequences,   *)
(* so that '' is <<>> everywhere and JavaScript truthiness of a string is  *)
(* "the sequence is not empty".                                            *)
(***************************************************************************)
EXTENDS Naturals, Sequences, FiniteSets

VARIABLES
  currentPrompt,   \* useState<string>('')                    App.tsx:13
  imageFile,       \* useState<File | null>(null)             App.tsx:14
  imageUrl,        \* useState<string>('')                    App.tsx:15
  preview,         \* useState<string | null>(null)           App.tsx:16
  isLoading,       \* useState<boolean>(false)                App.tsx:18
  error,           \* useState<string>('')                    App.tsx:19
  useCamera,       \* useState<boolean>(false)                App.tsx:21
  isChatMode,      \* useState<boolean>(false)                App.tsx:27
  chatHistory,     \* useState<ChatMessage[]>([])             App.tsx:28
  calls,           \* the handleSubmit invocations that have not returned, oldest first
  pendingReads,    \* FileReader loads whose onloadend has not run     App.tsx:56-58
  pendingCamera,   \* getUserMedia promises not yet settled            App.tsx:75
  pendingBlobs,    \* canvas.toBlob callbacks not yet run              App.tsx:101
  submissions,     \* how many times handleSubmit has sent a request
  last             \* history variable: the step just taken and the state it started from

vars == <<currentPrompt, imageFile, imageUrl, preview, isLoading, error, useCamera,
          isChatMode, chatHistory, calls, pendingReads, pendingCamera, pendingBlobs,
          submissions, last>>

----------------------------------------------------------------------------
(* Bounds of the exploration.                                              *)

\* Requests sent in one behaviour.
MaxSubmissions == 2
\* handleSubmit invocations that may be suspended at the same time.
MaxCalls == 2
\* Outstanding callbacks of each asynchronous browser API.
MaxPending == 1
\* The transport cuts a body every ChunkUnit characters, the server after a frame.
ChunkUnit == 5

----------------------------------------------------------------------------
(* Strings.                                                                *)

NULL == "null"

\* String.prototype.trim: strip leading and trailing white space.
IsSpace(c) == c \in {" ", "\n", "\t", "\r"}

SetMin(S) == CHOOSE x \in S : \A y \in S : x <= y
SetMax(S) == CHOOSE x \in S : \A y \in S : x >= y

\* The first index from i upwards, and the last from i downwards, that holds
\* no white space (Len(s) + 1 and 0 when there is none).
RECURSIVE FirstSolid(_, _)
FirstSolid(s, i) == IF i > Len(s) \/ ~IsSpace(s[i]) THEN i ELSE FirstSolid(s, i + 1)

RECURSIVE LastSolid(_, _)
LastSolid(s, i) == IF i = 0 \/ ~IsSpace(s[i]) THEN i ELSE LastSolid(s, i - 1)

trim(s) == SubSeq(s, FirstSolid(s, 1), LastSolid(s, Len(s)))

\* String.prototype.startsWith
startsWith(s, p) == Len(s) >= Len(p) /\ SubSeq(s, 1, Len(p)) = p

\* String.prototype.substring(n): the text from index n (0-based) on.
substring(s, n) == SubSeq(s, n + 1, Len(s))

\* chunk.split('\n\n'): cut at every non-overlapping occurrence, left to right.
\* The first index from i upwards where a blank line starts (Len(s) when none).
RECURSIVE FirstBreak(_, _)
FirstBreak(s, i) ==
  IF i >= Len(s) \/ (s[i] = "\n" /\ s[i + 1] = "\n") THEN i ELSE FirstBreak(s, i + 1)

RECURSIVE split(_)
split(s) ==
  LET i == FirstBreak(s, 1)
  IN  IF i >= Len(s) THEN <<s>>
      ELSE <<SubSeq(s, 1, i - 1)>> \o split(SubSeq(s, i + 2, Len(s)))

\* NoMember with a parse failure read as an error event.
NoMember_AsError == [ok |-> TRUE, key |-> <<"e", "r", "r", "o", "r">>, value |-> <<"parse">>]

\* JSON.parse, for the texts the wire alphabet below can spell: white space
\* around the value is skipped; an object with one member whose name and value
\* are strings without escapes parses to that member; {} parses to no member.
\* Everything else is reported as a failure: texts that are no JSON throw, and
\* JSON values that are no such object (a number, a string, null) have no
\* token, error or event member, so the frame loop does nothing for them either.
NoMember == [ok |-> FALSE, key |-> <<>>, value |-> <<>>]

IsPlain(s) == \A i \in 1..Len(s) : s[i] \notin {"\"", "\n", "\t", "\r", "\\"}

ParseMember(body) ==
  LET q  == {i \in 1..Len(body) : body[i] = "\""}
      q1 == SetMin(q)
      q4 == SetMax(q)
      q2 == SetMin(q \ {q1})
      q3 == SetMax(q \ {q4})
  IN  IF Cardinality(q) # 4 THEN NoMember
      ELSE IF /\ trim(SubSeq(body, 1, q1 - 1)) = <<>>
              /\ trim(SubSeq(body, q2 + 1, q3 - 1)) = <<":">>
              /\ trim(SubSeq(body, q4 + 1, Len(body))) = <<>>
              /\ IsPlain(SubSeq(body, q1 + 1, q2 - 1))
              /\ IsPlain(SubSeq(body, q3 + 1, q4 - 1))
           THEN [ok |-> TRUE, key |-> SubSeq(body, q1 + 1, q2 - 1),
                 value |-> SubSeq(body, q3 + 1, q4 - 1)]
           ELSE NoMember

JSONparse(text) ==
  LET t == trim(text)
  IN  IF Len(t) < 2 \/ t[1] # "{" \/ t[Len(t)] # "}" THEN NoMember
      ELSE LET body == SubSeq(t, 2, Len(t) - 1)
           IN  IF trim(body) = <<>> THEN [NoMember EXCEPT !.ok = TRUE]
               ELSE ParseMember(body)

\* parsed.<name>: undefined (modelled as '', equally falsy) unless the member is there.
Member(parsed, name) == IF parsed.ok /\ parsed.key = name THEN parsed.value ELSE <<>>

----------------------------------------------------------------------------
(* Program texts.                                                          *)

\* DEFAULT_INITIAL_PROMPT, abbreviated to one letter: the code only trims it.
DEFAULT_INITIAL_PROMPT == <<"D">>
\* "[SmolArtExpert seems to be at a loss for words! No analysis provided.]"
FALLBACK == <<"[", "]">>

ERR_NO_INSTRUCTION == <<"Please provide an initial instruction or question about the artwork.">>
ERR_NO_MESSAGE     == <<"Please enter a message.">>
ERR_NO_IMAGE       == <<"Please select an image to analyze.">>
ERR_CAMERA         == <<"Could not access camera. Please check permissions.">>
ERR_BODY_NULL      == <<"Response body is null">>
ERR_FAILED         == <<"Failed to get response or stream from server.">>
STREAM_ERROR       == <<"Stream error: ">>

DATA_PREFIX == <<"d", "a", "t", "a", ":", " ">>
KEY_TOKEN   == <<"t", "o", "k", "e", "n">>
KEY_ERROR   == <<"e", "r", "r", "o", "r">>
KEY_EVENT   == <<"e", "v", "e", "n", "t">>
EOS         == <<"e", "o", "s">>

\* `Error: ${response.status} ${response.statusText}`
StatusMessage(status) ==
  IF status = 500 THEN <<"Error: 500 Internal Server Error">>
  ELSE <<"Error: 404 Not Found">>

----------------------------------------------------------------------------
(* The environment: what the user types and what the server sends.         *)

\* One frame on the wire: the payload after "data: ", then the blank line.
Object(key, value) == <<"{", "\"">> \o key \o <<"\"", ":", "\"">> \o value \o <<"\"", "}">>
Frame(line)  == line \o <<"\n", "\n">>
TokenFrame(t) == Frame(DATA_PREFIX \o Object(KEY_TOKEN, t))
ErrorFrame(m) == Frame(DATA_PREFIX \o Object(KEY_ERROR, m))
EosFrame      == Frame(DATA_PREFIX \o Object(KEY_EVENT, EOS))

\* Frames the frame loop has no branch for: a comment line without the data
\* prefix, and a data line whose payload is no JSON.
CommentFrame == Frame(<<":", "k">>)
BrokenFrame  == Frame(DATA_PREFIX \o <<"{", "x">>)

\* The response bodies the server may stream, as the whole text of each.
Streams ==
  { <<>>,
    EosFrame,
    TokenFrame(<<"A">>) \o TokenFrame(<<"B">>) \o EosFrame,
    TokenFrame(<<" ">>) \o EosFrame,
    ErrorFrame(<<"x">>),
    TokenFrame(<<"A">>) \o ErrorFrame(<<"x">>) \o TokenFrame(<<"B">>),
    EosFrame \o TokenFrame(<<"B">>) }

\* Where a chunk of the rest of a body may end: where the server flushed a
\* frame, where the transport cut (counted from the start of the body), and at
\* the end of the body.
ChunkEnds(body, wire) ==
  LET read == Len(body) - Len(wire)
  IN  {n \in 1..Len(wire) :
         \/ n = Len(wire)
         \/ (read + n) % ChunkUnit = 0
         \/ n >= 2 /\ wire[n - 1] = "\n" /\ wire[n] = "\n"}

\* Bodies of a rejection: no JSON at all, or a JSON object with or without `error`.
\* `has` says whether the object has an `error` member at all.
NO_JSON == [json |-> FALSE, has |-> FALSE, error |-> <<>>]
ErrorBodies ==
  { NO_JSON,
    [json |-> TRUE, has |-> FALSE, error |-> <<>>],
    [json |-> TRUE, has |-> TRUE,  error |-> <<>>],
    [json |-> TRUE, has |-> TRUE,  error |-> <<"overloaded">>] }

Statuses == {500, 404}

\* err.message of a rejected fetch or read.
FailureMessages == { <<>>, <<"Failed to fetch">> }

\* Values of the URL box.
NO_URL == <<>>
Urls == { NO_URL, <<"http://img">> }

----------------------------------------------------------------------------
(* The conversation updaters handed to setChatHistory.                     *)

Turn(role, content) == [role |-> role, content |-> content]

Last(h) == h[Len(h)]

\* prev.filter(msg => msg.role !== 'user' || msg.content !== userMessage.content)
RemoveUserTurns(h, content) ==
  SelectSeq(h, LAMBDA msg : msg.role # "user" \/ msg.content # content)

\* prev.filter(msg => !(msg.role === 'model' && msg.content === ''))
RemoveEmptyModelTurns(h) ==
  SelectSeq(h, LAMBDA msg : ~(msg.role = "model" /\ msg.content = <<>>))

\* [...prev, { role: 'model', content: '' }]
BeginModelTurn(h) == Append(h, Turn("model", <<>>))

\* the token branch: the last turn, if a model turn, shows the accumulated text
TokenUpdate(h, accumulated) ==
  IF Len(h) > 0 /\ Last(h).role = "model"
  THEN [h EXCEPT ![Len(h)].content = accumulated]
  ELSE h

\* DoneFill with the fallback forgotten.
DoneFill_NoFallback(h) == h

\* the done branch of the read loop
DoneFill(h) ==
  IF Len(h) > 0 /\ Last(h).role = "model" /\ trim(Last(h).content) = <<>>
  THEN [h EXCEPT ![Len(h)].content = FALLBACK]
  ELSE h

\* EosFill testing content === '' where the code tests content.trim() === ''.
EosFill_NoTrim(h) ==
  IF Len(h) > 0 /\ Last(h).role = "model" /\ Last(h).content = <<>>
  THEN [h EXCEPT ![Len(h)].content = FALLBACK]
  ELSE h

\* the eos branch of the frame loop
EosFill(h) ==
  IF Len(h) > 0 /\ Last(h).role = "model" /\ trim(Last(h).content) = <<>>
  THEN [h EXCEPT ![Len(h)].content = FALLBACK]
  ELSE h

\* the two filters of the catch block, in order
CatchFilters(h, content) == RemoveEmptyModelTurns(RemoveUserTurns(h, content))

\* setError(err.message || 'Failed to get response or stream from server.')
CatchMessage(message) == IF message # <<>> THEN message ELSE ERR_FAILED

\* RejectionMessage with the body's error text ignored.
RejectionMessage_StatusOnly(status, body) == StatusMessage(status)

\* errData.error || errorMsg, with errorMsg kept when response.json() throws
RejectionMessage(status, body) ==
  IF body.json /\ body.has /\ body.error # <<>> THEN body.error ELSE StatusMessage(status)

\* The effect on [preview, isChatMode, chatHistory]: run after a render in which
\* one of the three changed; every setChatHistory of this file stores a new array.
PromptEffect(prompt, pv, chat, h) ==
  IF pv # NULL /\ ~chat /\ Len(h) = 0 THEN DEFAULT_INITIAL_PROMPT ELSE prompt

----------------------------------------------------------------------------
(* The frame loop over one decoded chunk.  TextDecoder in stream mode       *)
(* completes split multi-byte characters, so a chunk is a run of whole      *)
(* characters of the body.                                                  *)

Event(type, text) == [type |-> type, text |-> text]

\* st: the loop's view of the state while it runs (synchronously) over the lines
ApplyLine(st, line) ==
  IF ~startsWith(line, DATA_PREFIX) THEN st
  ELSE LET parsed == JSONparse(substring(line, 6))
           token  == Member(parsed, KEY_TOKEN)
           err    == Member(parsed, KEY_ERROR)
       IN  IF token # <<>>
           THEN [st EXCEPT !.accumulated = @ \o token,
                           !.history = TokenUpdate(@, st.accumulated \o token),
                           !.touched = TRUE,
                           !.applied = Append(@, Event("token", token))]
           ELSE IF err # <<>>
           THEN [st EXCEPT !.error = STREAM_ERROR \o err,
                           !.loading = FALSE,
                           !.history = RemoveEmptyModelTurns(@),
                           !.touched = TRUE,
                           !.returned = TRUE,
                           !.applied = Append(@, Event("error", err))]
           ELSE IF Member(parsed, KEY_EVENT) = EOS
           THEN [st EXCEPT !.loading = FALSE,
                           !.history = EosFill(@),
                           !.touched = TRUE,
                           !.eos = TRUE,
                           !.applied = Append(@, Event("eos", <<>>))]
           ELSE st

\* ApplyLines going on after the error branch has returned.
RECURSIVE ApplyLines_PastError(_, _)
ApplyLines_PastError(st, lines) ==
  IF lines = <<>> THEN st
  ELSE ApplyLines_PastError(ApplyLine(st, Head(lines)), Tail(lines))

RECURSIVE ApplyLines(_, _)
ApplyLines(st, lines) ==
  IF lines = <<>> \/ st.returned THEN st
  ELSE ApplyLines(ApplyLine(st, Head(lines)), Tail(lines))

\* chunk.split('\n\n').filter(line => line.trim() !== '')
Lines(chunk) == SelectSeq(split(chunk), LAMBDA line : trim(line) # <<>>)

ApplyChunk(st, chunk) == ApplyLines(st, Lines(chunk))

----------------------------------------------------------------------------
(* State.                                                                  *)

\* One suspended handleSubmit: where it waits, what its closure holds, what it
\* sent, and what is left of the response.  prior, body, applied, eos and stale
\* are history fields: the conversation before the submission, the whole body,
\* the events the read loop has applied, whether an eos was among them, and
\* whether the conversation was reset since the submission.
NoResponse == [status |-> 0, body |-> NO_JSON]

Call(content, chat, prior) ==
  [pc |-> "fetch", userMessage |-> content, isChatMode |-> chat, response |-> NoResponse,
   accumulatedModelResponse |-> <<>>, wire |-> <<>>,
   prior |-> prior, body |-> <<>>, applied |-> <<>>, eos |-> FALSE, stale |-> FALSE]

NoCall == Call(<<>>, FALSE, <<>>)

\* The form data of a request: its messages field and its image field.
Request(messages, image) == [messages |-> messages, image |-> image]

NoRequest == Request(<<>>, [field |-> "none", value |-> <<>>])

\* last: the operation, the call it continued (as the step left it, or as the
\* step found it when the step ended it), the request it sent, the events it
\* applied, and the conversation and chat-mode flag it started from.
Did(op, call, request, events) ==
  [op |-> op, call |-> call, request |-> request, events |-> events,
   history |-> chatHistory, chat |-> isChatMode]

Step(op, call) == Did(op, call, NoRequest, <<>>)

RemoveAt(cs, i) == SubSeq(cs, 1, i - 1) \o SubSeq(cs, i + 1, Len(cs))

RECURSIVE MarkStale(_)
MarkStale(cs) ==
  IF cs = <<>> THEN <<>>
  ELSE <<[Head(cs) EXCEPT !.stale = TRUE]>> \o MarkStale(Tail(cs))

Init ==
  /\ currentPrompt = <<>>
  /\ imageFile = NULL
  /\ imageUrl = NO_URL
  /\ preview = NULL
  /\ isLoading = FALSE
  /\ error = <<>>
  /\ useCamera = FALSE
  /\ isChatMode = FALSE
  /\ chatHistory = <<>>
  /\ calls = <<>>
  /\ pendingReads = 0
  /\ pendingCamera = 0
  /\ pendingBlobs = 0
  /\ submissions = 0
  /\ last = [op |-> "init", call |-> NoCall, request |-> NoRequest, events |-> <<>>,
             history |-> <<>>, chat |-> FALSE]

----------------------------------------------------------------------------
(* Image handlers.  Each shows the state after the handler's batch of       *)
(* setState calls, the later call to a setter winning.                      *)

\* clearImageState with setImageUrl('') forgotten.
clearImageState_KeepsUrl ==
  [imageFile |-> NULL, imageUrl |-> imageUrl, preview |-> NULL, useCamera |-> FALSE]

\* clearImageState: the image state it leaves
clearImageState == [imageFile |-> NULL, imageUrl |-> NO_URL, preview |-> NULL, useCamera |-> FALSE]

SetImage(img) ==
  /\ imageFile' = img.imageFile
  /\ imageUrl' = img.imageUrl
  /\ preview' = img.preview
  /\ useCamera' = img.useCamera

\* handleNewImageSelected with setChatHistory([]) and setIsChatMode(false) forgotten.
handleNewImageSelected_KeepsConversation ==
  /\ isChatMode' = isChatMode
  /\ chatHistory' = chatHistory
  /\ currentPrompt' = DEFAULT_INITIAL_PROMPT
  /\ calls' = MarkStale(calls)

\* handleNewImageSelected; the reset also makes every suspended call stale
handleNewImageSelected ==
  /\ isChatMode' = FALSE
  /\ chatHistory' = <<>>
  /\ currentPrompt' = DEFAULT_INITIAL_PROMPT
  /\ calls' = MarkStale(calls)

\* The URL box, the file box and the camera button are rendered only without a
\* preview and outside camera mode, and are disabled while loading.
PickerEnabled == preview = NULL /\ ~useCamera /\ ~isLoading

handleFileChange ==
  /\ PickerEnabled
  /\ pendingReads < MaxPending
  /\ SetImage([clearImageState EXCEPT !.imageFile = "file"])
  /\ handleNewImageSelected
  /\ pendingReads' = pendingReads + 1
  /\ last' = Step("handleFileChange", NoCall)
  /\ UNCHANGED <<isLoading, error, pendingCamera, pendingBlobs, submissions>>

\* reader.onloadend: reader.result is the data URL of the file
onloadend(result) ==
  /\ pendingReads > 0
  /\ pendingReads' = pendingReads - 1
  /\ preview' = result
  /\ currentPrompt' = IF result # preview
                      THEN PromptEffect(currentPrompt, result, isChatMode, chatHistory)
                      ELSE currentPrompt
  /\ last' = Step("onloadend", NoCall)
  /\ UNCHANGED <<imageFile, imageUrl, isLoading, error, useCamera, isChatMode, chatHistory,
                 calls, pendingCamera, pendingBlobs, submissions>>

handleImageUrlChange(url) ==
  /\ PickerEnabled
  /\ url # imageUrl
  /\ SetImage([clearImageState EXCEPT !.imageUrl = url,
                                      !.preview = IF url # NO_URL THEN "url" ELSE NULL])
  /\ handleNewImageSelected
  /\ last' = Step("handleImageUrlChange", NoCall)
  /\ UNCHANGED <<isLoading, error, pendingReads, pendingCamera, pendingBlobs, submissions>>

\* startCamera up to its await
startCamera ==
  /\ PickerEnabled
  /\ pendingCamera < MaxPending
  /\ SetImage([clearImageState EXCEPT !.useCamera = TRUE])
  /\ handleNewImageSelected
  /\ pendingCamera' = pendingCamera + 1
  /\ last' = Step("startCamera", NoCall)
  /\ UNCHANGED <<isLoading, error, pendingReads, pendingBlobs, submissions>>

\* getUserMedia resolved: only the video element changes
cameraGranted ==
  /\ pendingCamera > 0
  /\ pendingCamera' = pendingCamera - 1
  /\ last' = Step("cameraGranted", NoCall)
  /\ UNCHANGED <<currentPrompt, imageFile, imageUrl, preview, isLoading, error, useCamera,
                 isChatMode, chatHistory, calls, pendingReads, pendingBlobs, submissions>>

\* getUserMedia rejected: the catch of startCamera
cameraDenied ==
  /\ pendingCamera > 0
  /\ pendingCamera' = pendingCamera - 1
  /\ error' = ERR_CAMERA
  /\ useCamera' = FALSE
  /\ last' = Step("cameraDenied", NoCall)
  /\ UNCHANGED <<currentPrompt, imageFile, imageUrl, preview, isLoading,
                 isChatMode, chatHistory, calls, pendingReads, pendingBlobs, submissions>>

\* The Capture button is rendered in camera mode and disabled while loading;
\* captureImage draws the frame and leaves the rest to the toBlob callback.
captureImage ==
  /\ useCamera /\ ~isLoading
  /\ pendingBlobs < MaxPending
  /\ pendingBlobs' = pendingBlobs + 1
  /\ last' = Step("captureImage", NoCall)
  /\ UNCHANGED <<currentPrompt, imageFile, imageUrl, preview, isLoading, error, useCamera,
                 isChatMode, chatHistory, calls, pendingReads, pendingCamera, submissions>>

\* the toBlob callback; blob is null when the canvas could not be encoded
toBlobCallback(blob) ==
  /\ pendingBlobs > 0
  /\ pendingBlobs' = pendingBlobs - 1
  /\ IF blob
     THEN /\ SetImage([clearImageState EXCEPT !.imageFile = "camera_capture.png",
                                              !.preview = "canvas"])
          /\ handleNewImageSelected
     ELSE UNCHANGED <<imageFile, imageUrl, preview, useCamera, isChatMode, chatHistory,
                      currentPrompt, calls>>
  /\ last' = Step(IF blob THEN "toBlobCallback" ELSE "toBlobCallback(null)", NoCall)
  /\ UNCHANGED <<isLoading, error, pendingReads, pendingCamera, submissions>>

\* the Close Camera button
closeCamera ==
  /\ useCamera
  /\ useCamera' = FALSE
  /\ last' = Step("closeCamera", NoCall)
  /\ UNCHANGED <<currentPrompt, imageFile, imageUrl, preview, isLoading, error,
                 isChatMode, chatHistory, calls, pendingReads, pendingCamera, pendingBlobs, submissions>>

\* the prompt box: rendered with a preview, disabled while loading
setCurrentPrompt(text) ==
  /\ preview # NULL /\ ~isLoading
  /\ text # currentPrompt
  /\ currentPrompt' = text
  /\ last' = Step("setCurrentPrompt", NoCall)
  /\ UNCHANGED <<imageFile, imageUrl, preview, isLoading, error, useCamera,
                 isChatMode, chatHistory, calls, pendingReads, pendingCamera, pendingBlobs, submissions>>

----------------------------------------------------------------------------
(* handleSubmit.                                                            *)

\* The Send button is disabled, and the Enter key ignored, while loading,
\* without a prompt or without a preview.
SubmitEnabled == ~isLoading /\ trim(currentPrompt) # <<>> /\ preview # NULL

\* The three checks that open handleSubmit: the message to show, or '' to go on.
ValidationError ==
  LET promptToSubmit == trim(currentPrompt)
  IN  IF promptToSubmit = <<>> /\ ~isChatMode THEN ERR_NO_INSTRUCTION
      ELSE IF isChatMode /\ promptToSubmit = <<>> THEN ERR_NO_MESSAGE
      ELSE IF imageFile = NULL /\ imageUrl = NO_URL THEN ERR_NO_IMAGE
      ELSE <<>>

\* isChatMode ? [...chatHistory, userMessage] : [userMessage]
CurrentMessages ==
  LET userMessage == Turn("user", trim(currentPrompt))
  IN  IF isChatMode THEN Append(chatHistory, userMessage) ELSE <<userMessage>>

\* the image part of the form data
ImageField ==
  IF imageFile # NULL THEN [field |-> "image_file", value |-> <<imageFile>>]
  ELSE IF imageUrl # NO_URL THEN [field |-> "image_url", value |-> imageUrl]
  ELSE [field |-> "none", value |-> <<>>]

\* handleSubmitRejects clearing the prompt as a sent submission does.
handleSubmitRejects_ClearsPrompt(enabled) ==
  /\ enabled
  /\ ValidationError # <<>>
  /\ error' = ValidationError
  /\ currentPrompt' = <<>>
  /\ last' = Step("handleSubmitRejects", NoCall)
  /\ UNCHANGED <<imageFile, imageUrl, preview, isLoading, useCamera,
                 isChatMode, chatHistory, calls, pendingReads, pendingCamera, pendingBlobs, submissions>>

\* handleSubmit returning from one of its checks
handleSubmitRejects(enabled) ==
  /\ enabled
  /\ ValidationError # <<>>
  /\ error' = ValidationError
  /\ last' = Step("handleSubmitRejects", NoCall)
  /\ UNCHANGED <<currentPrompt, imageFile, imageUrl, preview, isLoading, useCamera,
                 isChatMode, chatHistory, calls, pendingReads, pendingCamera, pendingBlobs, submissions>>

\* handleSubmit up to its await of fetch
handleSubmitSends(enabled) ==
  /\ enabled
  /\ ValidationError = <<>>
  /\ submissions < MaxSubmissions
  /\ Len(calls) < MaxCalls
  /\ submissions' = submissions + 1
  /\ error' = <<>>
  /\ isLoading' = TRUE
  /\ chatHistory' = CurrentMessages
  /\ currentPrompt' = <<>>
  /\ calls' = Append(calls, Call(trim(currentPrompt), isChatMode, chatHistory))
  /\ last' = Did("handleSubmitSends", Call(trim(currentPrompt), isChatMode, chatHistory),
                 Request(CurrentMessages, ImageField), <<>>)
  /\ UNCHANGED <<imageFile, imageUrl, preview, useCamera, isChatMode,
                 pendingReads, pendingCamera, pendingBlobs>>

\* The catch block, which ends the call.
Catch(i, message, h) ==
  /\ error' = CatchMessage(message)
  /\ isLoading' = FALSE
  /\ chatHistory' = CatchFilters(h, calls[i].userMessage)
  /\ currentPrompt' = PromptEffect(currentPrompt, preview, isChatMode, chatHistory')
  /\ calls' = RemoveAt(calls, i)
  /\ UNCHANGED <<imageFile, imageUrl, preview, useCamera, isChatMode,
                 pendingReads, pendingCamera, pendingBlobs, submissions>>

\* fetch rejects
fetchRejects(i, message) ==
  /\ calls[i].pc = "fetch"
  /\ Catch(i, message, chatHistory)
  /\ last' = Step("fetchRejects", calls[i])

\* response.ok && response.body: the model turn is begun and the body is read
responseAccepted(i, body) ==
  /\ calls[i].pc = "fetch"
  /\ isChatMode' = IF ~calls[i].isChatMode THEN TRUE ELSE isChatMode
  /\ chatHistory' = BeginModelTurn(chatHistory)
  /\ currentPrompt' = PromptEffect(currentPrompt, preview, isChatMode', chatHistory')
  /\ calls' = [calls EXCEPT ![i].pc = "read", ![i].wire = body, ![i].body = body]
  /\ last' = Step("responseAccepted", calls[i])
  /\ UNCHANGED <<imageFile, imageUrl, preview, isLoading, error, useCamera,
                 pendingReads, pendingCamera, pendingBlobs, submissions>>

\* response.ok without a body
responseWithoutBody(i) ==
  /\ calls[i].pc = "fetch"
  /\ Catch(i, ERR_BODY_NULL, RemoveUserTurns(chatHistory, calls[i].userMessage))
  /\ last' = Step("responseWithoutBody", calls[i])

\* !response.ok: handleSubmit awaits response.json()
responseRejected(i, status, body) ==
  /\ calls[i].pc = "fetch"
  /\ calls' = [calls EXCEPT ![i].pc = "json",
                            ![i].response = [status |-> status, body |-> body]]
  /\ last' = Step("responseRejected", calls[i])
  /\ UNCHANGED <<currentPrompt, imageFile, imageUrl, preview, isLoading, error, useCamera,
                 isChatMode, chatHistory, pendingReads, pendingCamera, pendingBlobs, submissions>>

\* response.json() settles: the user turn is filtered out and the error thrown
jsonSettles(i) ==
  /\ calls[i].pc = "json"
  /\ Catch(i, RejectionMessage(calls[i].response.status, calls[i].response.body),
           RemoveUserTurns(chatHistory, calls[i].userMessage))
  /\ last' = Step("jsonSettles", calls[i])

\* reader.read() resolves with the next n characters of the body
readChunk(i, n) ==
  LET c  == calls[i]
      st == ApplyChunk([history |-> chatHistory, accumulated |-> c.accumulatedModelResponse,
                        loading |-> isLoading, error |-> error, touched |-> FALSE,
                        returned |-> FALSE, eos |-> c.eos, applied |-> c.applied],
                       SubSeq(c.wire, 1, n))
  IN  /\ c.pc = "read"
      /\ chatHistory' = st.history
      /\ isLoading' = st.loading
      /\ error' = st.error
      /\ currentPrompt' = IF st.touched
                          THEN PromptEffect(currentPrompt, preview, isChatMode, st.history)
                          ELSE currentPrompt
      /\ calls' = IF st.returned THEN RemoveAt(calls, i)
                  ELSE [calls EXCEPT ![i].accumulatedModelResponse = st.accumulated,
                                     ![i].wire = substring(c.wire, n),
                                     ![i].eos = st.eos,
                                     ![i].applied = st.applied]
      /\ last' = Did("readChunk",
                     [c EXCEPT !.applied = st.applied, !.eos = st.eos,
                               !.accumulatedModelResponse = st.accumulated,
                               !.wire = substring(c.wire, n)],
                     NoRequest, SubSeq(st.applied, Len(c.applied) + 1, Len(st.applied)))
      /\ UNCHANGED <<imageFile, imageUrl, preview, useCamera, isChatMode,
                     pendingReads, pendingCamera, pendingBlobs, submissions>>

\* reader.read() resolves with done: the body has been read to its end
readDone(i) ==
  /\ calls[i].pc = "read"
  /\ calls[i].wire = <<>>
  /\ chatHistory' = DoneFill(chatHistory)
  /\ isLoading' = FALSE
  /\ currentPrompt' = PromptEffect(currentPrompt, preview, isChatMode, chatHistory')
  /\ calls' = RemoveAt(calls, i)
  /\ last' = Step("readDone", calls[i])
  /\ UNCHANGED <<imageFile, imageUrl, preview, error, useCamera, isChatMode,
                 pendingReads, pendingCamera, pendingBlobs, submissions>>

\* reader.read() rejects
readFails(i, message) ==
  /\ calls[i].pc = "read"
  /\ Catch(i, message, chatHistory)
  /\ last' = Step("readFails", calls[i])

----------------------------------------------------------------------------
(* Specifications.                                                          *)

ImageStep ==
  \/ handleFileChange
  \/ \E result \in {"file"} : onloadend(result)
  \/ \E url \in Urls : handleImageUrlChange(url)
  \/ startCamera
  \/ cameraGranted
  \/ cameraDenied
  \/ captureImage
  \/ \E blob \in BOOLEAN : toBlobCallback(blob)
  \/ closeCamera

\* What the network and the server may do to the suspended calls.
CallStep(messages, streams, statuses, bodies) ==
  \E i \in 1..Len(calls) :
    \/ \E message \in messages : fetchRejects(i, message)
    \/ \E body \in streams : responseAccepted(i, body)
    \/ responseWithoutBody(i)
    \/ \E status \in statuses, body \in bodies : responseRejected(i, status, body)
    \/ jsonSettles(i)
    \/ \E n \in ChunkEnds(calls[i].body, calls[i].wire) : readChunk(i, n)
    \/ readDone(i)
    \/ \E message \in messages : readFails(i, message)

\* The component driven through its rendered controls, against a server that
\* streams one of a few short bodies.
ShortStreams == { <<>>, TokenFrame(<<"A">>) \o EosFrame }

Next ==
  \/ ImageStep
  \/ \E text \in {<<" ">>} : setCurrentPrompt(text)
  \/ handleSubmitRejects(SubmitEnabled)
  \/ handleSubmitSends(SubmitEnabled)
  \/ CallStep({<<"Failed to fetch">>}, ShortStreams, {500}, {NO_JSON})

Spec == Init /\ [][Next]_vars

\* handleSubmit called whether or not its button is enabled, with the image
\* chosen by URL or by starting the camera.
NextHandler ==
  \/ startCamera
  \/ cameraGranted
  \/ cameraDenied
  \/ closeCamera
  \/ \E url \in Urls : handleImageUrlChange(url)
  \/ \E text \in {<<" ">>} : setCurrentPrompt(text)
  \/ handleSubmitRejects(TRUE)
  \/ handleSubmitSends(TRUE)
  \/ CallStep({<<"Failed to fetch">>}, ShortStreams, {500}, {NO_JSON})

SpecHandler == Init /\ [][NextHandler]_vars

\* The conversation alone: the state after handleImageUrlChange has stored a
\* URL, no further image operation, and every body and rejection of the server.
InitStream ==
  /\ currentPrompt = DEFAULT_INITIAL_PROMPT
  /\ imageFile = NULL
  /\ imageUrl = <<"http://img">>
  /\ preview = "url"
  /\ isLoading = FALSE
  /\ error = <<>>
  /\ useCamera = FALSE
  /\ isChatMode = FALSE
  /\ chatHistory = <<>>
  /\ calls = <<>>
  /\ pendingReads = 0
  /\ pendingCamera = 0
  /\ pendingBlobs = 0
  /\ submissions = 0
  /\ last = [op |-> "handleImageUrlChange", call |-> NoCall, request |-> NoRequest,
             events |-> <<>>, history |-> <<>>, chat |-> FALSE]

NextStream ==
  \/ \E text \in {<<"A", " ">>} : setCurrentPrompt(text)
  \/ handleSubmitSends(SubmitEnabled)
  \/ CallStep(FailureMessages, Streams, Statuses, ErrorBodies)

SpecStream == InitStream /\ [][NextStream]_vars

\* The bodies streamed to a follow-up question.
FollowUpStreams == { <<>>, TokenFrame(<<"A">>) \o ErrorFrame(<<"x">>) }

\* The conversation against a server that mixes comment lines and broken
\* payloads into its stream.
LenientStreams ==
  { TokenFrame(<<"A">>) \o BrokenFrame \o TokenFrame(<<"B">>),
    CommentFrame \o TokenFrame(<<"A">>) \o EosFrame,
    BrokenFrame \o CommentFrame }

NextFrames ==
  \/ handleSubmitSends(SubmitEnabled)
  \/ CallStep({<<"Failed to fetch">>}, LenientStreams, {500}, {NO_JSON})

SpecFrames == InitStream /\ [][NextFrames]_vars

\* A follow-up question under a pending capture: the state after a first
\* exchange on an image URL has completed (the stream closed without a token)
\* while the toBlob callback of an earlier Capture has not run yet.  The
\* requests counted by submissions are those sent from here on.
InitFollowUp ==
  /\ currentPrompt = <<>>
  /\ imageFile = NULL
  /\ imageUrl = <<"http://img">>
  /\ preview = "url"
  /\ isLoading = FALSE
  /\ error = <<>>
  /\ useCamera = FALSE
  /\ isChatMode = TRUE
  /\ chatHistory = <<Turn("user", DEFAULT_INITIAL_PROMPT), Turn("model", FALLBACK)>>
  /\ calls = <<>>
  /\ pendingReads = 0
  /\ pendingCamera = 0
  /\ pendingBlobs = 1
  /\ submissions = 0
  /\ last = [op |-> "readDone", call |-> NoCall, request |-> NoRequest,
             events |-> <<>>, history |-> <<>>, chat |-> TRUE]

NextFollowUp ==
  \/ \E text \in {<<"A", " ">>} : setCurrentPrompt(text)
  \/ handleSubmitSends(SubmitEnabled)
  \/ \E blob \in BOOLEAN : toBlobCallback(blob)
  \/ CallStep({<<"Failed to fetch">>}, FollowUpStreams, {500}, {NO_JSON})

SpecFollowUp == InitFollowUp /\ [][NextFollowUp]_vars

----------------------------------------------------------------------------
(* Properties.                                                              *)

\* The steps that continue a suspended handleSubmit.
CallOps == {"fetchRejects", "responseAccepted", "responseWithoutBody", "responseRejected",
            "jsonSettles", "readChunk", "readDone", "readFails"}

\* The steps in which a submission fails while it awaits its response.
AwaitFailures == {"fetchRejects", "responseWithoutBody", "jsonSettles"}

\* A readChunk step that met an error event (the loop returned there).
EndedByErrorEvent ==
  /\ last.op = "readChunk"
  /\ last.call.applied # <<>>
  /\ Last(last.call.applied).type = "error"

\* C1 (as claimed): when a submission fails while awaiting its response, the
\* conversation after the error handling equals, turn for turn, the
\* conversation before that submission.
C1_RollbackRestoresPrior ==
  last.op \in AwaitFailures => chatHistory = last.call.prior

\* The events the read loop applies when the whole body arrives as one chunk.
SingleChunkEvents(body) ==
  ApplyChunk([history |-> <<>>, accumulated |-> <<>>, loading |-> TRUE, error |-> <<>>,
              touched |-> FALSE, returned |-> FALSE, eos |-> FALSE, applied |-> <<>>],
             body).applied

\* C2 (as claimed): however the body was cut into chunks, the events the read
\* loop has applied when it ends (end of input, or an error event) are the
\* events it applies to the same body arriving as one chunk.
C2_ChunkingInvariant ==
  (last.op = "readDone" \/ EndedByErrorEvent)
    => last.call.applied = SingleChunkEvents(last.call.body)

\* C3 (as claimed): no submission is accepted while another is awaiting its
\* response or still reading its stream, so at most one handleSubmit is
\* suspended at any time.
C3_SingleInFlight == Len(calls) <= 1

\* C4 (as claimed): once the conversation was reset under a suspended call, no
\* later step of that call changes the conversation or the chat-mode flag.
C4_StaleCallIsolated ==
  (last.op \in CallOps /\ last.call.stale)
    => (chatHistory = last.history /\ isChatMode = last.chat)

\* The finalization the two branches are meant to share: a last turn that is a
\* model turn with nothing but white space in it shows the fallback text.
FinalizeBlank(h) ==
  IF Len(h) > 0 /\ Last(h).role = "model" /\ trim(Last(h).content) = <<>>
  THEN [h EXCEPT ![Len(h)].content = FALLBACK]
  ELSE h

\* C5: for a stream that has delivered no token, the step that applies its eos
\* event and the step that meets the end of input (before or after the eos)
\* change the state in the same way: the conversation is finalized with the
\* fallback text, loading is turned off and the error is left as it was; and
\* the end of input after an eos leaves what the end of input alone leaves.
C5_FallbackFillIdempotent ==
  [][ /\ ( \/ (last'.op = "readChunk" /\ last'.events = <<Event("eos", <<>>)>>
                 /\ last'.call.accumulatedModelResponse = <<>>)
           \/ (last'.op = "readDone" /\ last'.call.accumulatedModelResponse = <<>>) )
         => ( /\ chatHistory' = FinalizeBlank(chatHistory)
              /\ isLoading' = FALSE
              /\ error' = error )
      /\ DoneFill(EosFill(chatHistory')) = DoneFill(chatHistory') ]_vars

\* C5 witness: a stream that delivered neither a token nor an eos has closed,
\* and the model turn shows the fallback text with loading off and no error.
C5_Witness ==
  /\ last.op = "readDone"
  /\ last.call.applied = <<>>
  /\ Len(chatHistory) > 0 /\ Last(chatHistory) = Turn("model", FALLBACK)
  /\ ~isLoading /\ error = <<>>

\* A submission has just ended in an error.
EndedInError ==
  \/ last.op \in AwaitFailures
  \/ last.op = "readFails"
  \/ EndedByErrorEvent

Alternates(h) ==
  /\ Len(h) % 2 = 0
  /\ \A k \in 1..Len(h) : h[k].role = IF k % 2 = 1 THEN "user" ELSE "model"

\* C6 (as claimed): after a submission ends in any error, the conversation
\* alternates user, model, user, model with no turn left without its partner.
C6_ErrorsLeaveWholeExchanges == EndedInError => Alternates(chatHistory)

RECURSIVE Concat(_)
Concat(events) ==
  IF events = <<>> THEN <<>>
  ELSE (IF Head(events).type = "token" THEN Head(events).text ELSE <<>>) \o Concat(Tail(events))

\* The call of the last step has applied tokens only and then, just now, an eos.
TokensThenEos ==
  /\ last.op = "readChunk"
  /\ last.events # <<>> /\ Last(last.events).type = "eos"
  /\ \A k \in 1..(Len(last.call.applied) - 1) : last.call.applied[k].type = "token"
  /\ trim(Concat(last.call.applied)) # <<>>

\* C7 (as claimed): when a stream has delivered tokens t1..tn, one of them not
\* blank, and then eos, the model turn holds t1 + ... + tn and the turns before
\* it are those of the submission.
C7_TokensAccumulate ==
  TokensThenEos =>
    chatHistory = (IF last.call.isChatMode THEN last.call.prior ELSE <<>>)
                    \o <<Turn("user", last.call.userMessage),
                         Turn("model", Concat(last.call.applied))>>

\* The content of the last turn when the step finalizes it: what the step's own
\* tokens accumulated, or else what the turn held before the step.
ContentAtFinalization ==
  IF \E k \in 1..Len(last'.events) : last'.events[k].type = "token"
  THEN last'.call.accumulatedModelResponse
  ELSE Last(chatHistory).content

\* C8: a step that finalizes the stream (its last event is an eos, or it meets
\* the end of input) replaces the content of a last model turn by the fallback
\* text when that content is empty or white space only, leaves any other
\* content as it is, and changes nothing else in the conversation.
C8_FallbackOnlyWhenBlank ==
  [][ ( \/ last'.op = "readDone"
        \/ (last'.op = "readChunk" /\ last'.events # <<>>
              /\ Last(last'.events).type = "eos") )
      => IF Len(chatHistory) > 0 /\ Last(chatHistory).role = "model"
         THEN /\ Len(chatHistory') = Len(chatHistory)
              /\ \A k \in 1..(Len(chatHistory) - 1) : chatHistory'[k] = chatHistory[k]
              /\ Last(chatHistory').role = "model"
              /\ Last(chatHistory').content =
                   IF trim(ContentAtFinalization) = <<>> THEN FALLBACK
                   ELSE ContentAtFinalization
         ELSE chatHistory' = chatHistory ]_vars

\* C8 witness: an eos has just finalized a turn that held a blank token only.
C8_Witness ==
  /\ last.op = "readChunk"
  /\ last.events # <<>> /\ Last(last.events).type = "eos"
  /\ last.call.accumulatedModelResponse = <<" ">>
  /\ Len(chatHistory) > 0 /\ Last(chatHistory) = Turn("model", FALLBACK)

\* C9 (as claimed): the surfaced error is the body's error text whenever the
\* body has an error member, and the status message otherwise; a submission
\* made on an empty conversation leaves it empty.
C9_ErrorTextAlwaysSurfaced ==
  last.op = "jsonSettles" =>
    /\ error = IF last.call.response.body.json /\ last.call.response.body.has
               THEN last.call.response.body.error
               ELSE StatusMessage(last.call.response.status)
    /\ last.call.prior = <<>> => chatHistory = <<>>

\* C9 (amended): the surfaced error is the body's error text when the body has
\* a non-empty one, and the status message otherwise (no JSON, no error member,
\* or an empty error text); a submission made on an empty conversation leaves
\* it empty.
C9_RejectionMessage ==
  last.op = "jsonSettles" =>
    /\ error = IF /\ last.call.response.body.json
                  /\ last.call.response.body.has
                  /\ last.call.response.body.error # <<>>
               THEN last.call.response.body.error
               ELSE StatusMessage(last.call.response.status)
    /\ last.call.prior = <<>> => chatHistory = <<>>

\* C9 witness: a 500 with {"error": "overloaded"} on an empty conversation.
C9_Witness ==
  /\ last.op = "jsonSettles"
  /\ last.call.response = [status |-> 500,
                           body |-> [json |-> TRUE, has |-> TRUE, error |-> <<"overloaded">>]]
  /\ last.call.prior = <<>>
  /\ error = <<"overloaded">>
  /\ chatHistory = <<>>

\* C10: a handleSubmit that returns from one of its checks sends no request
\* and leaves the conversation, the chat-mode flag, the loading flag and the
\* prompt as they were; it sets the error message of the check that failed.
C10_ValidationOnlySetsError ==
  [][ last'.op = "handleSubmitRejects"
      => /\ UNCHANGED <<chatHistory, isChatMode, isLoading, currentPrompt, calls, submissions>>
         /\ error' = IF trim(currentPrompt) = <<>>
                     THEN (IF isChatMode THEN ERR_NO_MESSAGE ELSE ERR_NO_INSTRUCTION)
                     ELSE ERR_NO_IMAGE
         /\ (trim(currentPrompt) = <<>> \/ (imageFile = NULL /\ imageUrl = NO_URL)) ]_vars

\* C10 witness: a prompt of white space only has just been rejected.
C10_Witness ==
  /\ last.op = "handleSubmitRejects"
  /\ currentPrompt = <<" ">>
  /\ error = ERR_NO_INSTRUCTION

\* C11 (as claimed): the messages field of every request sent is the
\* conversation as stored by the submission, and that is the conversation
\* before the submission followed by the new user turn.
C11_RequestIsSnapshot ==
  last.op = "handleSubmitSends" =>
    /\ last.request.messages = chatHistory
    /\ last.request.messages = Append(last.history, Turn("user", last.call.userMessage))
\* C12: at most one of the image file and the image URL is set in every
\* reachable state, and every request sent carries exactly one image field:
\* image_file with the file when there is one, image_url with the URL otherwise.
C12_ExactlyOneImageField ==
  /\ ~(imageFile # NULL /\ imageUrl # NO_URL)
  /\ last.op = "handleSubmitSends" =>
       \/ /\ last.request.image.field = "image_file"
          /\ imageFile # NULL /\ last.request.image.value = <<imageFile>>
       \/ /\ last.request.image.field = "image_url"
          /\ imageUrl # NO_URL /\ last.request.image.value = imageUrl

\* C12 witness: a request has just been sent with a captured camera frame as
\* its image_file and no URL stored.
C12_Witness ==
  /\ last.op = "handleSubmitSends"
  /\ last.request.image = [field |-> "image_file", value |-> <<"camera_capture.png">>]
  /\ imageUrl = NO_URL
\* The conversation as the tokens of the step leave it.
AfterTokens ==
  IF Len(chatHistory) > 0 /\ Last(chatHistory).role = "model"
  THEN [chatHistory EXCEPT ![Len(chatHistory)].content = ContentAtFinalization]
  ELSE chatHistory

\* C13: a chunk that holds an error event is applied up to that event and no
\* further: the event's message is surfaced, loading is turned off, the model
\* turn in progress is removed when its content is empty (wherever it stands
\* in the conversation) and every turn with content is kept as it is, and the
\* call ends there, so that no suspended call ever has an error event behind
\* it.
C13_ErrorEventEndsStream ==
  [][ /\ (last'.op = "readChunk" /\ \E k \in 1..Len(last'.events) : last'.events[k].type = "error")
         => /\ Last(last'.events).type = "error"
            /\ \A k \in 1..(Len(last'.call.applied) - 1) : last'.call.applied[k].type # "error"
            /\ error' = STREAM_ERROR \o Last(last'.events).text
            /\ isLoading' = FALSE
            /\ Len(calls') = Len(calls) - 1
            /\ chatHistory' =
                 SelectSeq(AfterTokens, LAMBDA m : m.role = "user" \/ m.content # <<>>)
      /\ \A i \in 1..Len(calls') : \A k \in 1..Len(calls'[i].applied) :
            calls'[i].applied[k].type # "error" ]_vars

\* C13 witness: an error event has just arrived after a token, with a further
\* token frame behind it in the body; the model turn holds the token.
C13_Witness ==
  /\ EndedByErrorEvent
  /\ last.call.body = TokenFrame(<<"A">>) \o ErrorFrame(<<"x">>) \o TokenFrame(<<"B">>)
  /\ last.call.applied = <<Event("token", <<"A">>), Event("error", <<"x">>)>>
  /\ last.call.wire = <<>>
  /\ Len(chatHistory) > 0 /\ Last(chatHistory) = Turn("model", <<"A">>)
  /\ error = STREAM_ERROR \o <<"x">>
  /\ ~isLoading
\* The call of the last step had applied an eos event before that step.
AfterEos ==
  /\ last.op \in {"readChunk", "readDone", "readFails"}
  /\ \E k \in 1..(Len(last.call.applied) - Len(last.events)) : last.call.applied[k].type = "eos"

\* C14 (as claimed): once a call has applied an eos event, no frame that
\* arrives afterwards on its stream changes the conversation (neither a frame
\* of a later chunk nor one behind the eos in the same chunk), and no call
\* that has applied an eos is still reading while loading is off, that is,
\* while a new submission is permitted.
C14_EosIsFinal ==
  /\ (AfterEos /\ last.op = "readChunk") => chatHistory = last.history
  /\ (last.op = "readChunk" /\ last.events # <<>>)
       => \A k \in 1..(Len(last.events) - 1) : last.events[k].type # "eos"
  /\ \A i \in 1..Len(calls) : (calls[i].pc = "read" /\ calls[i].eos) => isLoading
\* A line that is a data frame with one of the three payloads of the protocol
\* (white space around a payload is JSON white space).
WellFormed(line) ==
  /\ Len(line) >= Len(DATA_PREFIX)
  /\ SubSeq(line, 1, Len(DATA_PREFIX)) = DATA_PREFIX
  /\ \E key \in {KEY_TOKEN, KEY_ERROR, KEY_EVENT} :
       \E value \in {<<"A">>, <<"B">>, <<" ">>, <<"x">>, EOS} :
         trim(SubSeq(line, Len(DATA_PREFIX) + 1, Len(line))) = Object(key, value)

\* C15: a chunk is applied as if its lines without the data prefix and its
\* data lines with an unparsable payload were absent: the conversation, the
\* error, the loading flag, the accumulated text and the events applied are
\* those of the well-formed frames alone, and the stream goes on unless one of
\* these ended it.
C15_JunkFramesDropped ==
  [][ \A i \in 1..Len(calls) : \A n \in 1..Len(calls[i].wire) :
        (calls[i].pc = "read" /\ readChunk(i, n)) =>
          LET c  == calls[i]
              st == ApplyLines([history |-> chatHistory, accumulated |-> c.accumulatedModelResponse,
                                loading |-> isLoading, error |-> error, touched |-> FALSE,
                                returned |-> FALSE, eos |-> c.eos, applied |-> c.applied],
                               SelectSeq(Lines(SubSeq(c.wire, 1, n)), WellFormed))
          IN  /\ chatHistory' = st.history
              /\ error' = st.error
              /\ isLoading' = st.loading
              /\ last'.call.applied = st.applied
              /\ last'.call.accumulatedModelResponse = st.accumulated
              /\ Len(calls') = IF st.returned THEN Len(calls) - 1 ELSE Len(calls) ]_vars

\* C15 witness: one chunk has delivered a token, a broken payload and a second
\* token; both tokens are in the model turn, no error is shown and the stream
\* is still being read.
C15_Witness ==
  /\ last.op = "readChunk"
  /\ last.call.body = TokenFrame(<<"A">>) \o BrokenFrame \o TokenFrame(<<"B">>)
  /\ last.call.wire = <<>>
  /\ last.events = <<Event("token", <<"A">>), Event("token", <<"B">>)>>
  /\ Len(chatHistory) > 0 /\ Last(chatHistory) = Turn("model", <<"A", "B">>)
  /\ error = <<>>
  /\ isLoading
  /\ Len(calls) = 1
\* A handleSubmit whose response was accepted has just finished.
FinishedAfterAccept ==
  \/ last.op = "readDone"
  \/ last.op = "readFails"
  \/ EndedByErrorEvent

\* C16 (as claimed): when a handleSubmit whose response was accepted finishes,
\* its reader has returned done or has failed (the stream is then closed by
\* its error); handleSubmit cancels no reader, so there is no third way in
\* which the reader could have been released.
C16_ReaderReleased ==
  FinishedAfterAccept => (last.op = "readDone" \/ last.op = "readFails")
\* The steps that store a new image or start the camera.
ImageOps == {"handleFileChange", "handleImageUrlChange", "startCamera", "toBlobCallback"}

\* C17: directly after a file was chosen, the URL was changed, the camera was
\* started or a camera frame was captured, the conversation is empty and chat
\* mode is off.
C17_NewImageResets ==
  last.op \in ImageOps => (chatHistory = <<>> /\ ~isChatMode)

\* C17 witness: a captured frame has just replaced the image of a conversation
\* that had turns and was in chat mode.
C17_Witness ==
  /\ last.op = "toBlobCallback"
  /\ last.history # <<>> /\ last.chat
  /\ imageFile = "camera_capture.png"
  /\ chatHistory = <<>> /\ ~isChatMode
\* The state a submission that ended in an error leaves: a message, loading off.
Errored == error # <<>> /\ ~isLoading

\* C18 (as claimed): from a state with an error message and loading off, a
\* submission that passes validation needs nothing else to be accepted, and
\* it clears the error message, turns loading on, appends the user turn to
\* the conversation and sends a request with that conversation.
C18_ErroredIsRecoverable ==
  [][ /\ (Errored /\ SubmitEnabled /\ ValidationError = <<>>
             /\ submissions < MaxSubmissions /\ Len(calls) < MaxCalls)
         => ENABLED handleSubmitSends(SubmitEnabled)
      /\ (Errored /\ last'.op = "handleSubmitSends")
         => /\ error' = <<>>
            /\ isLoading' = TRUE
            /\ chatHistory' = Append(chatHistory, Turn("user", trim(currentPrompt)))
            /\ last'.request.messages = chatHistory'
            /\ Len(calls') = Len(calls) + 1 ]_vars
\* C19 (as claimed, its safety part): loading is off whenever no handleSubmit
\* is suspended and after every step that ends one; an error message is set
\* after a submission that ended in an error, and none is set after a
\* submission that ended with the end of its stream.
C19_LoadingEndsErrorIffFailed ==
  /\ calls = <<>> => ~isLoading
  /\ (last.op = "readDone" \/ EndedInError) => ~isLoading
  /\ EndedInError => error # <<>>
  /\ last.op = "readDone" => error = <<>>
\* C20 (as claimed): with chat mode off and no handleSubmit suspended the
\* conversation is empty, and so a submission made with chat mode off, which
\* stores the new user turn alone, discards no turn.
C20_ChatModeConsistent ==
  /\ (~isChatMode /\ calls = <<>>) => chatHistory = <<>>
  /\ (last.op = "handleSubmitSends" /\ ~last.chat) => last.history = <<>>

====
